---- MODULE Spec2Model ----
(***************************************************************************)
(* Model of the calculator orchestrator and its agents.                    *)
(*                                                                         *)
(*   src/unnamed/part_001  orchestrator: registry `expressions`, bounded   *)
(*                         channel `tasks`, AddExpressionHandler, the read *)
(*                         handlers, GetTaskHandler, processTask and the   *)
(*                         in-process startAgent loop                      *)
(*   src/unnamed/part_002  the separate agent process (Start, getTask,     *)
(*                         performCalculation, sendResult)                 *)
(*   src/internal/application/application.go                               *)
(*                         the other orchestrator in the repository: an    *)
(*                         AddExpressionHandler that does not parse and    *)
(*                         sends on the channel with a blocking send, and  *)
(*                         an agent Start that writes the registry itself  *)
(*                                                                         *)
(* A float64 is modelled as an extended rational <<n, d>> in lowest terms: *)
(* d > 0 is the finite value n/d, <<1,0>> is +Inf, <<-1,0>> is -Inf and    *)
(* <<0,0>> is NaN.  Operands are small, so a finite result never overflows *)
(* and rounding of inexact quotients is not modelled.                      *)
(*                                                                         *)
(* Specifications:                                                         *)
(*   Spec      part_001 with its in-process agent and the part_002 agent   *)
(*             process, over a transport that may lose messages            *)
(*   FairSpec  the same over a reliable transport, with fair scheduling    *)
(*   SpecCap   part_001 alone under a burst that fills the channel         *)
(*   SpecRead  part_001 alone with clients that read the registry          *)
(*   SpecApp   the orchestrator and agent of application.go                *)
(*   SpecAppFull  the orchestrator of application.go alone, with fair      *)
(*             handlers, under requests that fill the channel              *)
(*   SpecEx    Spec with clients that send the example expressions         *)
(*   SpecStray, SpecAppStray  Spec and SpecApp with a task in the channel  *)
(*             whose ID the registry has no record under                   *)
(***************************************************************************)
EXTENDS Integers, Sequences, FiniteSets, TLC

\* ------------------------------------------------------------------ bounds

\* number of Submit requests the clients send in Spec
MaxReq == 2

\* number of read requests (list / get-by-id) the clients send in SpecRead
MaxReads == 1

\* number of Submit requests the clients send in SpecRead
ReadReq == 2

\* Submit requests of the burst in SpecCap
BurstReq == 4

\* number of Submit requests the clients send in SpecEx
ExReq == 1

\* ------------------------------------------------------------------ float64

NaN == <<0, 0>>
PosInf == <<1, 0>>
NegInf == <<-1, 0>>
Zero == <<0, 1>>

Abs(i) == IF i < 0 THEN -i ELSE i

Sgn(i) == IF i < 0 THEN -1 ELSE IF i = 0 THEN 0 ELSE 1

RECURSIVE GCD(_, _)
GCD(a, b) == IF b = 0 THEN a ELSE GCD(b, a % b)

\* lowest terms, positive denominator; a zero denominator keeps only the sign
Norm(n, d) ==
    IF d = 0 THEN <<Sgn(n), 0>>
    ELSE LET g == GCD(Abs(n), Abs(d))
         IN  <<(Sgn(d) * n) \div g, Abs(d) \div g>>

Fin(i) == <<i, 1>>

IsNaN(x) == x = NaN

IsInf(x) == x[2] = 0 /\ x[1] # 0

IsFinite(x) == x[2] # 0

\* Go's x == 0 on a float64
IsZero(x) == x[2] # 0 /\ x[1] = 0

Neg(x) == <<-x[1], x[2]>>

\* IEEE-754 addition: Inf + -Inf = NaN, Inf + finite = Inf
FAdd(x, y) ==
    IF IsNaN(x) \/ IsNaN(y) THEN NaN
    ELSE IF IsInf(x) /\ IsInf(y) THEN (IF x = y THEN x ELSE NaN)
    ELSE IF IsInf(x) THEN x
    ELSE IF IsInf(y) THEN y
    ELSE Norm(x[1] * y[2] + y[1] * x[2], x[2] * y[2])

FSub(x, y) == FAdd(x, Neg(y))

\* IEEE-754 multiplication: 0 * Inf = NaN
FMul(x, y) ==
    IF IsNaN(x) \/ IsNaN(y) THEN NaN
    ELSE IF IsInf(x) \/ IsInf(y)
         THEN (IF IsZero(x) \/ IsZero(y) THEN NaN
               ELSE <<Sgn(x[1]) * Sgn(y[1]), 0>>)
    ELSE Norm(x[1] * y[1], x[2] * y[2])

\* IEEE-754 division: x/0 = +-Inf, 0/0 = NaN, Inf/Inf = NaN, finite/Inf = 0
FDiv(x, y) ==
    IF IsNaN(x) \/ IsNaN(y) THEN NaN
    ELSE IF IsInf(x) THEN (IF IsInf(y) THEN NaN
                           ELSE <<Sgn(x[1]) * (IF y[1] < 0 THEN -1 ELSE 1), 0>>)
    ELSE IF IsInf(y) THEN Zero
    ELSE IF IsZero(y) THEN (IF IsZero(x) THEN NaN ELSE <<Sgn(x[1]), 0>>)
    ELSE Norm(x[1] * y[2], x[2] * y[1])

\* ------------------------------------------------------------------ parser

\* strconv.ParseFloat on the tokens of the model's vocabulary: the literals it
\* accepts and their values; every other token is a syntax error
NumLit ==
    [t \in {"0", "1", "2", "3", "4", "5", "8", "10", "2.0", "0.5", "Inf", "NaN"} |->
        CASE t = "0" -> Fin(0)
          [] t = "1" -> Fin(1)
          [] t = "2" -> Fin(2)
          [] t = "3" -> Fin(3)
          [] t = "4" -> Fin(4)
          [] t = "5" -> Fin(5)
          [] t = "8" -> Fin(8)
          [] t = "10" -> Fin(10)
          [] t = "2.0" -> Fin(2)
          [] t = "0.5" -> <<1, 2>>
          [] t = "Inf" -> PosInf
          [] t = "NaN" -> NaN]

ParseFloat(tok) ==
    IF tok \in DOMAIN NumLit THEN [err |-> FALSE, val |-> NumLit[tok]]
    ELSE [err |-> TRUE, val |-> Zero]

Operators == {"+", "-", "*", "/"}

\* a parser that returns the operands in the opposite order
parseExpression_Swapped(expr) ==
    IF Len(expr) # 3
    THEN [err |-> "format", arg1 |-> Zero, arg2 |-> Zero, operator |-> ""]
    ELSE LET p1 == ParseFloat(expr[1])
             p2 == ParseFloat(expr[3])
         IN  IF p1.err \/ p2.err
             THEN [err |-> "numbers", arg1 |-> Zero, arg2 |-> Zero, operator |-> ""]
             ELSE IF expr[2] \notin Operators
             THEN [err |-> "operator", arg1 |-> Zero, arg2 |-> Zero, operator |-> ""]
             ELSE [err |-> "", arg1 |-> p2.val, arg2 |-> p1.val, operator |-> expr[2]]

\* parseExpression: expr is strings.Fields of the text, a sequence of tokens
parseExpression(expr) ==
    IF Len(expr) # 3
    THEN [err |-> "format", arg1 |-> Zero, arg2 |-> Zero, operator |-> ""]
    ELSE LET p1 == ParseFloat(expr[1])
             p2 == ParseFloat(expr[3])
         IN  IF p1.err \/ p2.err
             THEN [err |-> "numbers", arg1 |-> Zero, arg2 |-> Zero, operator |-> ""]
             ELSE IF expr[2] \notin Operators
             THEN [err |-> "operator", arg1 |-> Zero, arg2 |-> Zero, operator |-> ""]
             ELSE [err |-> "", arg1 |-> p1.val, arg2 |-> p2.val, operator |-> expr[2]]

\* ------------------------------------------------------------------ state

\* capacity of the channel `tasks`
QueueCap == 10

VARIABLES
    expressions,        \* the registry map: ID -> Expression record
    tasks,              \* the buffered channel of Task records, oldest first
    expressionsMutex,   \* <<"free", 0>>, <<"handler", r>> or <<"agent", 0>>
    handlers,           \* the AddExpressionHandler goroutine of each request
    agent,              \* the in-process agent goroutine (failed: the IDs whose report
                        \* returned an error)
    worker,             \* the separate agent process (sent: status of its last report;
                        \* failed: the IDs whose report returned an error)
    enqLog,             \* IDs of the tasks sent on the channel, in order
    deqLog,             \* IDs of the tasks received from the channel, in order
    reads,              \* the read requests served so far and what they saw
    fatal               \* the Go runtime has aborted the orchestrator

vars == <<expressions, tasks, expressionsMutex, handlers, agent, worker,
          enqLog, deqLog, reads, fatal>>

\* Task{}: the zero value
NoTask == [ID |-> 0, Arg1 |-> Zero, Arg2 |-> Zero, Operation |-> ""]

Free == <<"free", 0>>

\* a request body (the tokens of its expression); json is FALSE when the payload does not decode
BadPayload == [json |-> FALSE, text |-> <<>>]

Body(text) == [json |-> TRUE, text |-> text]

\* the locals of a handler that has responded
Responded(body, id, resp) ==
    [pc |-> "done", body |-> body, id |-> id, task |-> NoTask, resp |-> resp]

\* generateUniqueID: an ID no handler has generated yet
NewID == Cardinality({r \in DOMAIN handlers : handlers[r].id # 0}) + 1

\* a record of the registry under id was written to
Put(id, rec) == [i \in DOMAIN expressions \cup {id} |->
                    IF i = id THEN rec ELSE expressions[i]]

Init ==
    /\ expressions = <<>>
    /\ tasks = <<>>
    /\ expressionsMutex = Free
    /\ handlers = <<>>
    /\ agent = [pc |-> "poll", task |-> NoTask, result |-> Zero, failed |-> {}]
    /\ worker = [pc |-> "getTask", task |-> NoTask, result |-> Zero, sent |-> 0,
                 failed |-> {}]
    /\ enqLog = <<>>
    /\ deqLog = <<>>
    /\ reads = [n |-> 0, id |-> 0, seen |-> {}, locked |-> FALSE]
    /\ fatal = FALSE

\* ------------------------------------------------------------------ Submit (part_001)

\* AddExpressionHandler up to expressionsMutex.Lock(): decode, parse, new ID.
\* The clients send at most max requests, at most conc of them at a time
AddExpression_Begin(max, conc, body) ==
    /\ ~fatal
    /\ Len(handlers) < max
    /\ Cardinality({r \in 1..Len(handlers) : handlers[r].pc # "done"}) < conc
    /\ LET p == parseExpression(body.text)
       IN  IF ~body.json \/ p.err # ""
           THEN /\ handlers' = Append(handlers, Responded(body, 0, 400))
                /\ UNCHANGED expressionsMutex
           ELSE /\ expressionsMutex = Free
                /\ expressionsMutex' = <<"handler", Len(handlers) + 1>>
                /\ handlers' = Append(handlers,
                       [pc |-> "insert", body |-> body, id |-> NewID, resp |-> 0,
                        task |-> [ID |-> NewID, Arg1 |-> p.arg1, Arg2 |-> p.arg2,
                                  Operation |-> p.operator]])
    /\ UNCHANGED <<expressions, tasks, agent, worker, enqLog, deqLog, reads, fatal>>

\* the handler going on to the send without the map write
AddExpression_Insert_Skip(r) ==
    /\ ~fatal
    /\ r \in DOMAIN handlers
    /\ handlers[r].pc = "insert"
    /\ expressionsMutex' = Free
    /\ handlers' = [handlers EXCEPT ![r].pc = "select"]
    /\ UNCHANGED <<expressions, tasks, agent, worker, enqLog, deqLog, reads, fatal>>

\* expressions[expressionID] = expr; expressionsMutex.Unlock()
AddExpression_Insert(r) ==
    /\ ~fatal
    /\ r \in DOMAIN handlers
    /\ handlers[r].pc = "insert"
    /\ expressions' = Put(handlers[r].id,
            [ID |-> handlers[r].id, Expression |-> handlers[r].body.text,
             Status |-> "pending", Result |-> Zero])
    /\ expressionsMutex' = Free
    /\ handlers' = [handlers EXCEPT ![r].pc = "select"]
    /\ UNCHANGED <<tasks, agent, worker, enqLog, deqLog, reads, fatal>>

\* the send without the default branch of the select and without the
\* capacity of the channel
AddExpression_Select_Unbounded(r) ==
    /\ ~fatal
    /\ r \in DOMAIN handlers
    /\ handlers[r].pc = "select"
    /\ tasks' = Append(tasks, handlers[r].task)
    /\ enqLog' = Append(enqLog, handlers[r].task.ID)
    /\ handlers' = [handlers EXCEPT ![r].pc = "lock", ![r].task = NoTask]
    /\ UNCHANGED <<expressions, expressionsMutex, agent, worker, deqLog, reads, fatal>>

\* a handler that, on a full channel, answers 500 and puts its task in the
\* place of the oldest one
AddExpression_Select_Displace(r) ==
    /\ ~fatal
    /\ r \in DOMAIN handlers
    /\ handlers[r].pc = "select"
    /\ IF Len(tasks) < QueueCap
       THEN /\ tasks' = Append(tasks, handlers[r].task)
            /\ enqLog' = Append(enqLog, handlers[r].task.ID)
            /\ handlers' = [handlers EXCEPT ![r].pc = "lock", ![r].task = NoTask]
       ELSE /\ tasks' = Append(Tail(tasks), handlers[r].task)
            /\ enqLog' = Append(enqLog, handlers[r].task.ID)
            /\ handlers' = [handlers EXCEPT ![r].pc = "done", ![r].task = NoTask,
                                            ![r].resp = 500]
    /\ UNCHANGED <<expressions, expressionsMutex, agent, worker, deqLog, reads, fatal>>

\* a handler that sends its task twice when the channel has room for two
AddExpression_Select_Twice(r) ==
    /\ ~fatal
    /\ r \in DOMAIN handlers
    /\ handlers[r].pc = "select"
    /\ IF Len(tasks) + 1 < QueueCap
       THEN /\ tasks' = Append(Append(tasks, handlers[r].task), handlers[r].task)
            /\ enqLog' = Append(Append(enqLog, handlers[r].task.ID), handlers[r].task.ID)
            /\ handlers' = [handlers EXCEPT ![r].pc = "lock", ![r].task = NoTask]
       ELSE /\ handlers' = [handlers EXCEPT ![r].pc = "done", ![r].task = NoTask,
                                            ![r].resp = 500]
            /\ UNCHANGED <<tasks, enqLog>>
    /\ UNCHANGED <<expressions, expressionsMutex, agent, worker, deqLog, reads, fatal>>

\* select { case tasks <- task: ... default: http.Error(500) }
AddExpression_Select(r) ==
    /\ ~fatal
    /\ r \in DOMAIN handlers
    /\ handlers[r].pc = "select"
    /\ IF Len(tasks) < QueueCap
       THEN /\ tasks' = Append(tasks, handlers[r].task)
            /\ enqLog' = Append(enqLog, handlers[r].task.ID)
            /\ handlers' = [handlers EXCEPT ![r].pc = "lock", ![r].task = NoTask]
       ELSE /\ handlers' = [handlers EXCEPT ![r].pc = "done", ![r].task = NoTask,
                                            ![r].resp = 500]
            /\ UNCHANGED <<tasks, enqLog>>
    /\ UNCHANGED <<expressions, expressionsMutex, agent, worker, deqLog, reads, fatal>>

\* expressionsMutex.Lock() of the case branch
AddExpression_Lock(r) ==
    /\ ~fatal
    /\ r \in DOMAIN handlers
    /\ handlers[r].pc = "lock"
    /\ expressionsMutex = Free
    /\ expressionsMutex' = <<"handler", r>>
    /\ handlers' = [handlers EXCEPT ![r].pc = "mark"]
    /\ UNCHANGED <<expressions, tasks, agent, worker, enqLog, deqLog, reads, fatal>>

\* expr.Status = "processing"; Unlock; respond 201 with the ID
AddExpression_Mark(r) ==
    /\ ~fatal
    /\ r \in DOMAIN handlers
    /\ handlers[r].pc = "mark"
    /\ expressions' = [expressions EXCEPT ![handlers[r].id].Status = "processing"]
    /\ expressionsMutex' = Free
    /\ handlers' = [handlers EXCEPT ![r].pc = "done", ![r].resp = 201]
    /\ UNCHANGED <<tasks, agent, worker, enqLog, deqLog, reads, fatal>>

\* ------------------------------------------------------------------ in-process agent (part_001)

\* the switch of processTask and its two early returns
processResult(task) ==
    LET result ==
            CASE task.Operation = "+" -> FAdd(task.Arg1, task.Arg2)
              [] task.Operation = "-" -> FSub(task.Arg1, task.Arg2)
              [] task.Operation = "*" -> FMul(task.Arg1, task.Arg2)
              [] task.Operation = "/" -> FDiv(task.Arg1, task.Arg2)
              [] OTHER -> Zero
    IN  IF task.Operation = "/" /\ IsZero(task.Arg2)
        THEN [ok |-> FALSE, result |-> Zero]
        ELSE IF IsNaN(result) \/ IsInf(result)
        THEN [ok |-> FALSE, result |-> result]
        ELSE [ok |-> TRUE, result |-> result]

\* a poll that reads the oldest task and leaves it in the queue
Agent_Poll_Peek ==
    /\ ~fatal
    /\ agent.pc = "poll"
    /\ IF tasks # <<>>
       THEN /\ agent' = [agent EXCEPT !.pc = "process", !.task = Head(tasks)]
            /\ deqLog' = Append(deqLog, Head(tasks).ID)
       ELSE /\ agent' = [agent EXCEPT !.pc = "sleep"]
            /\ UNCHANGED deqLog
    /\ UNCHANGED <<expressions, tasks, expressionsMutex, handlers, worker, enqLog,
                   reads, fatal>>

\* a poll that receives the newest task instead of the oldest
Agent_Poll_Newest ==
    /\ ~fatal
    /\ agent.pc = "poll"
    /\ IF tasks # <<>>
       THEN /\ agent' = [agent EXCEPT !.pc = "process", !.task = tasks[Len(tasks)]]
            /\ tasks' = SubSeq(tasks, 1, Len(tasks) - 1)
            /\ deqLog' = Append(deqLog, tasks[Len(tasks)].ID)
       ELSE /\ agent' = [agent EXCEPT !.pc = "sleep"]
            /\ UNCHANGED <<tasks, deqLog>>
    /\ UNCHANGED <<expressions, expressionsMutex, handlers, worker, enqLog, reads, fatal>>

\* startAgent: getNextTaskToProcess, then processTask or the one-second sleep
Agent_Poll ==
    /\ ~fatal
    /\ agent.pc = "poll"
    /\ IF tasks # <<>>
       THEN /\ agent' = [agent EXCEPT !.pc = "process", !.task = Head(tasks)]
            /\ tasks' = Tail(tasks)
            /\ deqLog' = Append(deqLog, Head(tasks).ID)
       ELSE /\ agent' = [agent EXCEPT !.pc = "sleep"]
            /\ UNCHANGED <<tasks, deqLog>>
    /\ UNCHANGED <<expressions, expressionsMutex, handlers, worker, enqLog, reads, fatal>>

Agent_Sleep ==
    /\ ~fatal
    /\ agent.pc = "sleep"
    /\ agent' = [agent EXCEPT !.pc = "poll"]
    /\ UNCHANGED <<expressions, tasks, expressionsMutex, handlers, worker,
                   enqLog, deqLog, reads, fatal>>

\* processTask sending the task of a failed computation to the queue again
Agent_Process_Requeue ==
    /\ ~fatal
    /\ agent.pc = "process"
    /\ LET c == processResult(agent.task)
       IN  IF ~c.ok
           THEN /\ agent' = [agent EXCEPT !.pc = "poll", !.task = NoTask, !.result = Zero]
                /\ tasks' = Append(tasks, agent.task)
                /\ UNCHANGED expressionsMutex
           ELSE /\ expressionsMutex = Free
                /\ expressionsMutex' = <<"agent", 0>>
                /\ agent' = [agent EXCEPT !.pc = "write", !.result = c.result]
                /\ UNCHANGED tasks
    /\ UNCHANGED <<expressions, handlers, worker, enqLog, deqLog, reads, fatal>>

\* processTask up to expressionsMutex.Lock(): a failed computation drops the task
Agent_Process ==
    /\ ~fatal
    /\ agent.pc = "process"
    /\ LET c == processResult(agent.task)
       IN  IF ~c.ok
           THEN /\ agent' = [agent EXCEPT !.pc = "poll", !.task = NoTask, !.result = Zero]
                /\ UNCHANGED expressionsMutex
           ELSE /\ expressionsMutex = Free
                /\ expressionsMutex' = <<"agent", 0>>
                /\ agent' = [agent EXCEPT !.pc = "write", !.result = c.result]
    /\ UNCHANGED <<expressions, tasks, handlers, worker, enqLog, deqLog, reads, fatal>>

\* expr, found := expressions[task.ID]; if found { Status, Result }; Unlock
Agent_Write ==
    /\ ~fatal
    /\ agent.pc = "write"
    /\ IF agent.task.ID \in DOMAIN expressions
       THEN expressions' = [expressions EXCEPT
                ![agent.task.ID].Status = "completed",
                ![agent.task.ID].Result = agent.result]
       ELSE UNCHANGED expressions
    /\ expressionsMutex' = Free
    /\ agent' = [agent EXCEPT !.pc = "poll", !.task = NoTask, !.result = Zero]
    /\ UNCHANGED <<tasks, handlers, worker, enqLog, deqLog, reads, fatal>>


\* ------------------------------------------------------------------ read handlers (part_001)

\* What a read of the record under id may return.  The read handlers take no
\* lock, so a read that overlaps a writer's critical section is a data race:
\* each field is the value in memory or the value the writer is storing
Views(id) ==
    LET cur == expressions[id]
        byAgent == agent.pc = "write" /\ agent.task.ID = id
        byHandler == \E r \in DOMAIN handlers :
                        handlers[r].pc = "mark" /\ handlers[r].id = id
        statuses == {cur.Status}
                        \cup (IF byAgent THEN {"completed"} ELSE {})
                        \cup (IF byHandler THEN {"processing"} ELSE {})
        results == {cur.Result} \cup (IF byAgent THEN {agent.result} ELSE {})
    IN  {[cur EXCEPT !.Status = st, !.Result = res] : st \in statuses, res \in results}

\* a handler is inside expressions[expressionID] = expr
MapWriteInProgress == \E r \in DOMAIN handlers : handlers[r].pc = "insert"

\* GetExpressionsHandler: ranges over the map and copies every record, with no
\* lock; the Go runtime may abort on a map read concurrent with a map write
GetExpressions(max) ==
    /\ ~fatal
    /\ reads.n < max
    /\ \/ /\ \E f \in [DOMAIN expressions -> UNION {Views(i) : i \in DOMAIN expressions}] :
                /\ \A i \in DOMAIN expressions : f[i] \in Views(i)
                /\ reads' = [n |-> reads.n + 1, id |-> 0,
                             seen |-> {f[i] : i \in DOMAIN expressions},
                             locked |-> expressionsMutex # Free]
          /\ UNCHANGED fatal
       \/ /\ MapWriteInProgress
          /\ fatal' = TRUE
          /\ reads' = [n |-> reads.n + 1, id |-> 0, seen |-> {}, locked |-> TRUE]
    /\ UNCHANGED <<expressions, tasks, expressionsMutex, handlers, agent, worker,
                   enqLog, deqLog>>

\* GetExpressionByIDHandler: expressions[id] and the encoding of the record,
\* with no lock; 404 (nothing seen) for an unknown id
GetExpressionByID(max, id) ==
    /\ ~fatal
    /\ reads.n < max
    /\ \/ /\ IF id \in DOMAIN expressions
             THEN \E v \in Views(id) :
                    reads' = [n |-> reads.n + 1, id |-> id, seen |-> {v},
                              locked |-> expressionsMutex # Free]
             ELSE reads' = [n |-> reads.n + 1, id |-> id, seen |-> {},
                            locked |-> expressionsMutex # Free]
          /\ UNCHANGED fatal
       \/ /\ MapWriteInProgress
          /\ fatal' = TRUE
          /\ reads' = [n |-> reads.n + 1, id |-> id, seen |-> {}, locked |-> TRUE]
    /\ UNCHANGED <<expressions, tasks, expressionsMutex, handlers, agent, worker,
                   enqLog, deqLog>>

\* ------------------------------------------------------------------ the agent process (part_002)

\* the routes RunServer registers
Routes == {<<"POST", "/api/v1/calculate">>, <<"GET", "/api/v1/expressions">>,
           <<"GET", "/api/v1/expressions/{id}">>, <<"GET", "/internal/task">>}

\* the status the router answers a request without a matching method with
Dispatch(method, path) == IF <<method, path>> \in Routes THEN 200 ELSE 405

\* json.Encoder.Encode fails on a NaN or infinite float64
Encodable(task) == IsFinite(task.Arg1) /\ IsFinite(task.Arg2)

\* fmt.Sprintf("%f", x) of a finite x: six decimals, rounded half away from zero
FormatF(x) ==
    LET m == (2 * Abs(x[1]) * 1000000 + x[2]) \div (2 * x[2])
    IN  Norm(Sgn(x[1]) * m, 1000000)

\* calculation.Calc on "<arg1> <op> <arg2>": the operator applied to the operands,
\* an error for a division by zero and for a NaN or infinite result
Calc(a, op, b) ==
    LET result ==
            CASE op = "+" -> FAdd(a, b)
              [] op = "-" -> FSub(a, b)
              [] op = "*" -> FMul(a, b)
              [] op = "/" -> FDiv(a, b)
              [] OTHER -> NaN
    IN  [err |-> (op = "/" /\ IsZero(b)) \/ ~IsFinite(result), result |-> result]

\* performCalculation
performCalculation(task) ==
    IF IsZero(task.Arg1) \/ IsZero(task.Arg2)
    THEN [err |-> TRUE, result |-> Zero]
    ELSE LET c == Calc(FormatF(task.Arg1), task.Operation, FormatF(task.Arg2))
         IN  IF c.err THEN [err |-> TRUE, result |-> Zero]
             ELSE [err |-> FALSE, result |-> c.result]

\* getNextTaskToProcess: a select with a default branch, a receive that does
\* not wait; rest is the channel after the call
getNextTaskToProcess(q) ==
    IF q # <<>>
    THEN [found |-> TRUE, task |-> Head(q), rest |-> Tail(q)]
    ELSE [found |-> FALSE, task |-> NoTask, rest |-> q]

\* a GetTaskHandler that answers 200 with the zero Task when the queue is empty
GetTaskHandler_Found(q) ==
    LET n == getNextTaskToProcess(q)
    IN  [status |-> 200, body |-> Encodable(n.task), task |-> n.task, rest |-> n.rest]

\* GetTaskHandler: 404 "no task available" when nothing was received;
\* otherwise the header 200 and the encoded task (body is FALSE when the
\* encoding fails and the body stays empty)
GetTaskHandler(q) ==
    LET n == getNextTaskToProcess(q)
    IN  IF ~n.found
        THEN [status |-> 404, body |-> FALSE, task |-> NoTask, rest |-> q]
        ELSE [status |-> 200, body |-> Encodable(n.task), task |-> n.task,
              rest |-> n.rest]

\* getTask: GET /internal/task served by GetTaskHandler.  net is what the
\* transport does: the request is lost, the response is lost, or both arrive.
\* getTask returns an error for a transport error, a status other than 200 and
\* a body that does not decode, and Start then sleeps
Worker_GetTask(net) ==
    /\ ~fatal
    /\ worker.pc = "getTask"
    /\ IF net = "norequest"
       THEN /\ worker' = [worker EXCEPT !.pc = "sleep"]
            /\ UNCHANGED <<tasks, deqLog>>
       ELSE LET h == GetTaskHandler(tasks)
            IN  /\ tasks' = h.rest
                /\ deqLog' = IF h.rest # tasks THEN Append(deqLog, Head(tasks).ID)
                              ELSE deqLog
                /\ IF net = "ok" /\ h.status = 200 /\ h.body
                   THEN worker' = [worker EXCEPT !.pc = "calc", !.task = h.task]
                   ELSE worker' = [worker EXCEPT !.pc = "sleep"]
    /\ UNCHANGED <<expressions, expressionsMutex, handlers, agent, enqLog, reads, fatal>>

\* result, err := performCalculation(task); an error continues without a sleep
Worker_Calc ==
    /\ ~fatal
    /\ worker.pc = "calc"
    /\ LET c == performCalculation(worker.task)
       IN  IF c.err
           THEN worker' = [worker EXCEPT !.pc = "getTask", !.task = NoTask]
           ELSE worker' = [worker EXCEPT !.pc = "send", !.result = c.result]
    /\ UNCHANGED <<expressions, tasks, expressionsMutex, handlers, agent,
                   enqLog, deqLog, reads, fatal>>

\* sendResult: POST /internal/task, for which RunServer registers no handler;
\* sent is the status of the response.  A status other than 200 is an error,
\* which is logged; then the two-second sleep
Worker_Send ==
    /\ ~fatal
    /\ worker.pc = "send"
    /\ LET status == Dispatch("POST", "/internal/task")
       IN  worker' = [worker EXCEPT !.pc = "sleep", !.task = NoTask, !.result = Zero,
                                    !.sent = status,
                                    !.failed = IF status # 200
                                               THEN @ \cup {worker.task.ID} ELSE @]
    /\ UNCHANGED <<expressions, tasks, expressionsMutex, handlers, agent,
                   enqLog, deqLog, reads, fatal>>

Worker_Sleep ==
    /\ ~fatal
    /\ worker.pc = "sleep"
    /\ worker' = [worker EXCEPT !.pc = "getTask"]
    /\ UNCHANGED <<expressions, tasks, expressionsMutex, handlers, agent,
                   enqLog, deqLog, reads, fatal>>

\* ------------------------------------------------------------------ application.go

\* the Task application.go's AddExpressionHandler builds, whatever the text
AppTask(id) == [ID |-> id, Arg1 |-> Fin(2), Arg2 |-> Fin(3), Operation |-> "+"]

\* AddExpressionHandler up to the map write: decode only, no parse, no lock
App_AddExpression_Begin(max, conc, body) ==
    /\ ~fatal
    /\ Len(handlers) < max
    /\ Cardinality({r \in 1..Len(handlers) : handlers[r].pc # "done"}) < conc
    /\ IF ~body.json
       THEN handlers' = Append(handlers, Responded(body, 0, 422))
       ELSE handlers' = Append(handlers,
               [pc |-> "store", body |-> body, id |-> NewID, resp |-> 0,
                task |-> AppTask(NewID)])
    /\ UNCHANGED <<expressions, tasks, expressionsMutex, agent, worker,
                   enqLog, deqLog, reads, fatal>>

\* expressions[expressionID] = expression, outside any lock: the Go runtime
\* may abort on a map write concurrent with another access to the map
App_AddExpression_Store(r) ==
    /\ ~fatal
    /\ r \in DOMAIN handlers
    /\ handlers[r].pc = "store"
    /\ expressions' = Put(handlers[r].id,
            [ID |-> handlers[r].id, Expression |-> handlers[r].body.text,
             Status |-> "pending", Result |-> Zero])
    /\ handlers' = [handlers EXCEPT ![r].pc = "send"]
    /\ \/ fatal' = FALSE
       \/ /\ \/ \E q \in DOMAIN handlers : q # r /\ handlers[q].pc = "store"
             \/ agent.pc \in {"status", "result"}
          /\ fatal' = TRUE
    /\ UNCHANGED <<tasks, expressionsMutex, agent, worker, enqLog, deqLog, reads>>

\* tasks <- task: blocks while the channel is full; then 201 with the ID
App_AddExpression_Send(r) ==
    /\ ~fatal
    /\ r \in DOMAIN handlers
    /\ handlers[r].pc = "send"
    /\ Len(tasks) < QueueCap
    /\ tasks' = Append(tasks, handlers[r].task)
    /\ enqLog' = Append(enqLog, handlers[r].task.ID)
    /\ handlers' = [handlers EXCEPT ![r].pc = "done", ![r].task = NoTask,
                                    ![r].resp = 201]
    /\ UNCHANGED <<expressions, expressionsMutex, agent, worker, deqLog, reads, fatal>>

\* Start of application.go: getNextTaskToProcess, or the two-second sleep
App_Poll ==
    /\ ~fatal
    /\ agent.pc = "poll"
    /\ IF tasks # <<>>
       THEN /\ agent' = [agent EXCEPT !.pc = "calc", !.task = Head(tasks)]
            /\ tasks' = Tail(tasks)
            /\ deqLog' = Append(deqLog, Head(tasks).ID)
       ELSE /\ agent' = [agent EXCEPT !.pc = "sleep"]
            /\ UNCHANGED <<tasks, deqLog>>
    /\ UNCHANGED <<expressions, expressionsMutex, handlers, worker, enqLog, reads, fatal>>

\* result, err := performCalculation(task); an error continues without a sleep
App_Calc ==
    /\ ~fatal
    /\ agent.pc = "calc"
    /\ LET c == performCalculation(agent.task)
       IN  IF c.err
           THEN agent' = [agent EXCEPT !.pc = "poll", !.task = NoTask, !.result = Zero]
           ELSE agent' = [agent EXCEPT !.pc = "send", !.result = c.result]
    /\ UNCHANGED <<expressions, tasks, expressionsMutex, handlers, worker,
                   enqLog, deqLog, reads, fatal>>

\* sendResult: POST /internal/task, for which RunServer registers no handler;
\* its error is logged and the loop goes on to the registry writes
App_SendResult ==
    /\ ~fatal
    /\ agent.pc = "send"
    /\ LET status == Dispatch("POST", "/internal/task")
       IN  agent' = [agent EXCEPT !.pc = "status",
                                  !.failed = IF status # 200
                                             THEN @ \cup {agent.task.ID} ELSE @]
    /\ UNCHANGED <<expressions, tasks, expressionsMutex, handlers, worker,
                   enqLog, deqLog, reads, fatal>>

\* expressions[task.ID].Status = "completed": a nil dereference (a panic) when
\* the registry has no record under the ID
App_WriteStatus ==
    /\ ~fatal
    /\ agent.pc = "status"
    /\ IF agent.task.ID \in DOMAIN expressions
       THEN /\ expressions' = [expressions EXCEPT ![agent.task.ID].Status = "completed"]
            /\ agent' = [agent EXCEPT !.pc = "result"]
            /\ UNCHANGED fatal
       ELSE /\ fatal' = TRUE
            /\ UNCHANGED <<expressions, agent>>
    /\ UNCHANGED <<tasks, expressionsMutex, handlers, worker, enqLog, deqLog, reads>>

\* expressions[task.ID].Result = result; then the two-second sleep
App_WriteResult ==
    /\ ~fatal
    /\ agent.pc = "result"
    /\ expressions' = [expressions EXCEPT ![agent.task.ID].Result = agent.result]
    /\ agent' = [agent EXCEPT !.pc = "sleep", !.task = NoTask, !.result = Zero]
    /\ UNCHANGED <<tasks, expressionsMutex, handlers, worker, enqLog, deqLog, reads, fatal>>

App_Sleep ==
    /\ ~fatal
    /\ agent.pc = "sleep"
    /\ agent' = [agent EXCEPT !.pc = "poll"]
    /\ UNCHANGED <<expressions, tasks, expressionsMutex, handlers, worker,
                   enqLog, deqLog, reads, fatal>>

\* ------------------------------------------------------------------ specifications

\* the request bodies the clients of Spec send
ExprTexts == {<<"8", "/", "2">>, <<"1", "/", "0">>, <<"0", "+", "3">>,
              <<"Inf", "-", "Inf">>, <<"3", "4", "+">>}

Bodies == {Body(t) : t \in ExprTexts}

\* the request bodies of Spec and a payload that does not decode
AllBodies == Bodies \cup {BadPayload}

Handlers == 1..Len(handlers)

Next ==
    \/ \E body \in AllBodies : AddExpression_Begin(MaxReq, MaxReq, body)
    \/ \E r \in Handlers : AddExpression_Insert(r)
    \/ \E r \in Handlers : AddExpression_Select(r)
    \/ \E r \in Handlers : AddExpression_Lock(r)
    \/ \E r \in Handlers : AddExpression_Mark(r)
    \/ Agent_Poll
    \/ Agent_Sleep
    \/ Agent_Process
    \/ Agent_Write
    \/ \E net \in {"ok", "norequest", "noresponse"} : Worker_GetTask(net)
    \/ Worker_Calc
    \/ Worker_Send
    \/ Worker_Sleep

Spec == Init /\ [][Next]_vars

\* The orchestrator alone (the agent process is not running) under a burst of
\* requests, two in flight at a time, that arrives when Prefill earlier
\* submissions of "8 / 2" have been accepted and the agent has not polled yet
Prefill == QueueCap - 2

BurstBody == Body(<<"8", "/", "2">>)

InitCap ==
    /\ expressions = [i \in 1..Prefill |->
            [ID |-> i, Expression |-> BurstBody.text, Status |-> "processing",
             Result |-> Zero]]
    /\ tasks = [i \in 1..Prefill |->
            [ID |-> i, Arg1 |-> Fin(8), Arg2 |-> Fin(2), Operation |-> "/"]]
    /\ expressionsMutex = Free
    /\ handlers = [i \in 1..Prefill |-> Responded(BurstBody, i, 201)]
    /\ agent = [pc |-> "sleep", task |-> NoTask, result |-> Zero, failed |-> {}]
    /\ worker = [pc |-> "getTask", task |-> NoTask, result |-> Zero, sent |-> 0,
                 failed |-> {}]
    /\ enqLog = [i \in 1..Prefill |-> i]
    /\ deqLog = <<>>
    /\ reads = [n |-> 0, id |-> 0, seen |-> {}, locked |-> FALSE]
    /\ fatal = FALSE

NextCap ==
    \/ AddExpression_Begin(Prefill + BurstReq, 2, BurstBody)
    \/ \E r \in Handlers : AddExpression_Insert(r)
    \/ \E r \in Handlers : AddExpression_Select(r)
    \/ \E r \in Handlers : AddExpression_Lock(r)
    \/ \E r \in Handlers : AddExpression_Mark(r)
    \/ Agent_Poll
    \/ Agent_Sleep
    \/ Agent_Process
    \/ Agent_Write

SpecCap == InitCap /\ [][NextCap]_vars

\* The orchestrator and agent of application.go
NextApp ==
    \/ \E body \in AllBodies : App_AddExpression_Begin(MaxReq, MaxReq, body)
    \/ \E r \in Handlers : App_AddExpression_Store(r)
    \/ \E r \in Handlers : App_AddExpression_Send(r)
    \/ App_Poll
    \/ App_Calc
    \/ App_SendResult
    \/ App_WriteStatus
    \/ App_WriteResult
    \/ App_Sleep

SpecApp == Init /\ [][NextApp]_vars

\* The orchestrator of application.go alone (nothing polls the queue) under
\* requests sent one after the other, from the state in which Prefill earlier
\* submissions have been accepted
InitAppFull ==
    /\ expressions = [i \in 1..Prefill |->
            [ID |-> i, Expression |-> BurstBody.text, Status |-> "pending",
             Result |-> Zero]]
    /\ tasks = [i \in 1..Prefill |-> AppTask(i)]
    /\ expressionsMutex = Free
    /\ handlers = [i \in 1..Prefill |-> Responded(BurstBody, i, 201)]
    /\ agent = [pc |-> "poll", task |-> NoTask, result |-> Zero, failed |-> {}]
    /\ worker = [pc |-> "getTask", task |-> NoTask, result |-> Zero, sent |-> 0,
                 failed |-> {}]
    /\ enqLog = [i \in 1..Prefill |-> i]
    /\ deqLog = <<>>
    /\ reads = [n |-> 0, id |-> 0, seen |-> {}, locked |-> FALSE]
    /\ fatal = FALSE

NextAppFull ==
    \/ \E body \in AllBodies : App_AddExpression_Begin(Prefill + BurstReq, 1, body)
    \/ \E r \in Handlers : App_AddExpression_Store(r)
    \/ \E r \in Handlers : App_AddExpression_Send(r)

\* every handler goroutine that can take a step takes it in the end
FairnessAppFull ==
    \A r \in 1..(Prefill + BurstReq) :
        /\ WF_vars(App_AddExpression_Store(r))
        /\ WF_vars(App_AddExpression_Send(r))

SpecAppFull == InitAppFull /\ [][NextAppFull]_vars /\ FairnessAppFull

\* The agents applied to a task whose ID the registry has no record under:
\* when the orchestrator starts serving, one submission of "8 / 2" has been
\* accepted and the channel holds its task (first) and such a task.  (No
\* handler sends one: this drives processTask and Start over the Task values
\* their code provides for.)
StrayID == MaxReq + 1

StrayTask == [ID |-> StrayID, Arg1 |-> Fin(2), Arg2 |-> Fin(3), Operation |-> "+"]

InitStrayWith(first, status) ==
    /\ expressions = [i \in {first.ID} |->
            [ID |-> i, Expression |-> BurstBody.text, Status |-> status,
             Result |-> Zero]]
    /\ tasks = <<first, StrayTask>>
    /\ expressionsMutex = Free
    /\ handlers = <<Responded(BurstBody, first.ID, 201)>>
    /\ agent = [pc |-> "poll", task |-> NoTask, result |-> Zero, failed |-> {}]
    /\ worker = [pc |-> "getTask", task |-> NoTask, result |-> Zero, sent |-> 0,
                 failed |-> {}]
    /\ enqLog = <<first.ID, StrayID>>
    /\ deqLog = <<>>
    /\ reads = [n |-> 0, id |-> 0, seen |-> {}, locked |-> FALSE]
    /\ fatal = FALSE

\* part_001 and the agent process
InitStray ==
    InitStrayWith([ID |-> 1, Arg1 |-> Fin(8), Arg2 |-> Fin(2), Operation |-> "/"],
                  "processing")

SpecStray == InitStray /\ [][Next]_vars

\* application.go
InitAppStray == InitStrayWith(AppTask(1), "pending")

SpecAppStray == InitAppStray /\ [][NextApp]_vars

\* Spec with clients that send the example expressions: two numbers and an
\* operator in each of the two orders, and a text that is no expression
InfixTexts == {<<"3", "+", "4">>, <<"10", "-", "2">>, <<"5", "*", "5">>,
               <<"8", "/", "2">>}

PostfixTexts == {<<"3", "4", "+">>, <<"10", "2", "-">>, <<"5", "5", "*">>,
                 <<"8", "2", "/">>}

InvalidText == <<"invalid", "expression">>

ExampleBodies == {Body(t) : t \in InfixTexts \cup PostfixTexts \cup {InvalidText}}

NextEx ==
    \/ \E body \in ExampleBodies : AddExpression_Begin(ExReq, ExReq, body)
    \/ \E r \in Handlers : AddExpression_Insert(r)
    \/ \E r \in Handlers : AddExpression_Select(r)
    \/ \E r \in Handlers : AddExpression_Lock(r)
    \/ \E r \in Handlers : AddExpression_Mark(r)
    \/ Agent_Poll
    \/ Agent_Sleep
    \/ Agent_Process
    \/ Agent_Write
    \/ \E net \in {"ok", "norequest", "noresponse"} : Worker_GetTask(net)
    \/ Worker_Calc
    \/ Worker_Send
    \/ Worker_Sleep

SpecEx == Init /\ [][NextEx]_vars

\* The orchestrator alone, with clients that also read the registry
NextRead ==
    \/ \E body \in Bodies : AddExpression_Begin(ReadReq, ReadReq, body)
    \/ \E r \in Handlers : AddExpression_Insert(r)
    \/ \E r \in Handlers : AddExpression_Select(r)
    \/ \E r \in Handlers : AddExpression_Lock(r)
    \/ \E r \in Handlers : AddExpression_Mark(r)
    \/ Agent_Poll
    \/ Agent_Sleep
    \/ Agent_Process
    \/ Agent_Write
    \/ GetExpressions(MaxReads)
    \/ \E id \in 1..ReadReq : GetExpressionByID(MaxReads, id)

SpecRead == Init /\ [][NextRead]_vars

\* Spec on a transport that loses no request and no response
NextReliable ==
    \/ \E body \in AllBodies : AddExpression_Begin(MaxReq, MaxReq, body)
    \/ \E r \in Handlers : AddExpression_Insert(r)
    \/ \E r \in Handlers : AddExpression_Select(r)
    \/ \E r \in Handlers : AddExpression_Lock(r)
    \/ \E r \in Handlers : AddExpression_Mark(r)
    \/ Agent_Poll
    \/ Agent_Sleep
    \/ Agent_Process
    \/ Agent_Write
    \/ Worker_GetTask("ok")
    \/ Worker_Calc
    \/ Worker_Send
    \/ Worker_Sleep

\* The Go scheduler runs every runnable goroutine, the agent process keeps
\* running, and sync.Mutex hands the lock to every waiter in the end; the
\* clients are free to stop sending requests
Fairness ==
    /\ \A r \in 1..MaxReq :
        /\ WF_vars(AddExpression_Insert(r))
        /\ WF_vars(AddExpression_Select(r))
        /\ SF_vars(AddExpression_Lock(r))
        /\ WF_vars(AddExpression_Mark(r))
    /\ WF_vars(Agent_Poll)
    /\ WF_vars(Agent_Sleep)
    /\ SF_vars(Agent_Process)
    /\ WF_vars(Agent_Write)
    /\ WF_vars(Worker_GetTask("ok"))
    /\ WF_vars(Worker_Calc)
    /\ WF_vars(Worker_Send)
    /\ WF_vars(Worker_Sleep)

FairSpec == Init /\ [][NextReliable]_vars /\ Fairness

\* ------------------------------------------------------------------ claims

\* the value of a well-formed `<number> <op> <number>`, by the four operations
Evaluate(text) ==
    LET a == NumLit[text[1]]
        b == NumLit[text[3]]
    IN  CASE text[2] = "+" -> FAdd(a, b)
          [] text[2] = "-" -> FSub(a, b)
          [] text[2] = "*" -> FMul(a, b)
          [] text[2] = "/" -> FDiv(a, b)

\* the request r carries `<number> <op> <number>` with, for /, a nonzero divisor
WellFormed(text) ==
    /\ Len(text) = 3
    /\ text[1] \in DOMAIN NumLit /\ IsFinite(NumLit[text[1]])
    /\ text[3] \in DOMAIN NumLit /\ IsFinite(NumLit[text[3]])
    /\ text[2] \in Operators
    /\ ~(text[2] = "/" /\ IsZero(NumLit[text[3]]))

\* the request r was submitted with a well-formed expression
SubmittedWellFormed(r) ==
    r \in Handlers /\ handlers[r].body.json /\ WellFormed(handlers[r].body.text)

\* the record of request r is completed with the value of its expression
CompletedWithValue(r) ==
    /\ r \in Handlers
    /\ handlers[r].id \in DOMAIN expressions
    /\ expressions[handlers[r].id].Status = "completed"
    /\ expressions[handlers[r].id].Result = Evaluate(handlers[r].body.text)

\* C1: every submitted well-formed expression (nonzero divisor for /) is, under
\* fair scheduling of the handler and the agents, eventually completed with the
\* value of its arithmetic evaluation as result, and stays so
C1_EventuallyCompleted ==
    \A r \in 1..MaxReq : [](SubmittedWellFormed(r) => <>[]CompletedWithValue(r))

\* the position of a status in pending -> processing -> completed
Rank(status) ==
    CASE status = "pending" -> 0
      [] status = "processing" -> 1
      [] status = "completed" -> 2

\* C2: the status of a record only moves forward along pending -> processing
\* -> completed; a completed record is never processing or pending afterwards
C2_StatusForwardOnly ==
    [][\A id \in DOMAIN expressions :
          Rank(expressions'[id].Status) >= Rank(expressions[id].Status)]_vars

\* C3: a record carries a result only if its status is completed
C3_ResultOnlyWhenCompleted ==
    \A id \in DOMAIN expressions :
        expressions[id].Status # "completed" => expressions[id].Result = Zero

\* the handler r takes its step at the select while the queue is full
FullSubmit(r) ==
    /\ r \in DOMAIN handlers
    /\ handlers[r].pc = "select"
    /\ Len(tasks) = QueueCap
    /\ handlers'[r] # handlers[r]

\* C4: the queue never holds more than QueueCap tasks; a Submit that finds the
\* queue full answers 500, enqueues nothing and leaves its record pending
C4_QueueBounded ==
    /\ [](Len(tasks) <= QueueCap)
    /\ [][\A r \in DOMAIN handlers : FullSubmit(r) =>
            /\ handlers'[r].pc = "done" /\ handlers'[r].resp = 500
            /\ tasks' = tasks /\ enqLog' = enqLog
            /\ expressions'[handlers[r].id].Status = "pending"]_vars
    /\ [](\A r \in DOMAIN handlers : handlers[r].resp = 500 =>
            /\ expressions[handlers[r].id].Status = "pending"
            /\ \A i \in 1..Len(enqLog) : enqLog[i] # handlers[r].id)

\* a Submit was answered 500 on a full queue and its record is pending
C4_Witness ==
    \E r \in DOMAIN handlers :
        /\ handlers[r].resp = 500
        /\ Len(tasks) = QueueCap
        /\ expressions[handlers[r].id].Status = "pending"

\* the body is not a decodable `<number> <op> <number>`
Malformed(body) ==
    \/ ~body.json
    \/ Len(body.text) # 3
    \/ body.text[1] \notin DOMAIN NumLit
    \/ body.text[3] \notin DOMAIN NumLit
    \/ body.text[2] \notin {"+", "-", "*", "/"}

\* C5: a malformed request (a payload that does not decode, a token count
\* other than three, a non-numeric operand, an operator outside + - * /) is
\* answered with a client error, and no record and no task is made for it
C5_MalformedRejected ==
    /\ \A r \in DOMAIN handlers : Malformed(handlers[r].body) =>
            /\ handlers[r].pc = "done" => handlers[r].resp \in 400..499
            /\ handlers[r].id \notin DOMAIN expressions
    /\ \A id \in DOMAIN expressions : ~Malformed(Body(expressions[id].Expression))
    /\ \A i \in 1..Len(enqLog) : \E r \in DOMAIN handlers :
            handlers[r].id = enqLog[i] /\ ~Malformed(handlers[r].body)

\* the request r carries `<number> / 0`
DivByZero(r) ==
    /\ handlers[r].body.json
    /\ ~Malformed(handlers[r].body)
    /\ handlers[r].body.text[2] = "/"
    /\ IsZero(NumLit[handlers[r].body.text[3]])

\* the handler of r has sent the task, marked the record and answered 201
Marked(r) == handlers[r].pc = "done" /\ handlers[r].resp = 201

\* the number of occurrences of x in seq
Count(seq, x) == Cardinality({i \in 1..Len(seq) : seq[i] = x})

\* C6: an expression `<number> / 0` never becomes completed; once its handler
\* has marked it, it is processing in every later state; its task is received
\* from the queue at most once and is never sent again
C6_DivByZeroNeverCompletes ==
    \A r \in DOMAIN handlers : DivByZero(r) =>
        /\ handlers[r].id \in DOMAIN expressions =>
                expressions[handlers[r].id].Status # "completed"
        /\ Marked(r) => expressions[handlers[r].id].Status = "processing"
        /\ Count(enqLog, handlers[r].id) <= 1
        /\ Count(deqLog, handlers[r].id) = 1 =>
                \A i \in 1..Len(tasks) : tasks[i].ID # handlers[r].id

\* the agent has received the task of a marked `<number> / 0` and dropped it
C6_Witness ==
    \E r \in DOMAIN handlers :
        /\ DivByZero(r) /\ Marked(r)
        /\ Count(deqLog, handlers[r].id) = 1
        /\ agent.task.ID # handlers[r].id /\ worker.task.ID # handlers[r].id
        /\ expressions[handlers[r].id].Status = "processing"

\* C7: every task in the queue or handed to a poller has a record under its ID
C7_TaskHasRecord ==
    /\ \A i \in 1..Len(tasks) : tasks[i].ID \in DOMAIN expressions
    /\ \A i \in 1..Len(deqLog) : deqLog[i] \in DOMAIN expressions
    /\ agent.task # NoTask => agent.task.ID \in DOMAIN expressions
    /\ worker.task # NoTask => worker.task.ID \in DOMAIN expressions

\* one task is still queued and the other is in the hands of a poller
C7_Witness ==
    /\ tasks # <<>>
    /\ agent.task # NoTask \/ worker.task # NoTask

\* the same invariant for the orchestrator of application.go
C7_TaskHasRecord_App ==
    /\ \A i \in 1..Len(tasks) : tasks[i].ID \in DOMAIN expressions
    /\ agent.task # NoTask => agent.task.ID \in DOMAIN expressions

\* C8: every read of the registry is made under the lock: no read is served
\* while a writer holds the mutex, and no read returns a record that is
\* completed without its result
C8_ReadsUnderLock ==
    /\ ~reads.locked
    /\ \A v \in reads.seen :
            v.Status = "completed" => v.Result = Evaluate(v.Expression)

\* C9: no task ID is received from the queue twice, by any of the pollers, and
\* a received task is not in the queue again
C9_AtMostOnce ==
    /\ \A i, j \in 1..Len(deqLog) : i # j => deqLog[i] # deqLog[j]
    /\ \A i \in 1..Len(tasks) : Count(deqLog, tasks[i].ID) = 0

\* each of the two pollers has received a task
C9_Witness ==
    /\ Len(deqLog) >= 2
    /\ agent.task # NoTask /\ worker.task # NoTask

\* C10: the tasks are received in the order they were sent: the received
\* sequence is a prefix of the sent sequence
C10_Fifo ==
    /\ Len(deqLog) <= Len(enqLog)
    /\ \A i \in 1..Len(deqLog) : deqLog[i] = enqLog[i]

\* two tasks were sent and both were received, by different pollers
C10_Witness ==
    /\ Len(deqLog) >= 2
    /\ agent.task # NoTask /\ worker.task # NoTask
    /\ agent.task.ID # worker.task.ID

\* the agent process takes its getTask step while the queue is empty
EmptyPull == worker.pc = "getTask" /\ tasks = <<>> /\ worker' # worker

\* the in-process agent takes its poll step while the queue is empty
EmptyPoll == agent.pc = "poll" /\ tasks = <<>> /\ agent' # agent

\* C11: a pull of the next task on an empty queue is answered at once with 404
\* "no task available": the handler answers 404 with no task and leaves the
\* queue as it is, the step is enabled whenever a poller is at its pull (it
\* waits for nothing), the orchestrator does not abort, and the queue and
\* every record of the registry are left as they were
C11_EmptyPullNotFound ==
    /\ [](tasks = <<>> =>
            GetTaskHandler(tasks) =
                [status |-> 404, body |-> FALSE, task |-> NoTask, rest |-> tasks])
    /\ [](worker.pc = "getTask" /\ tasks = <<>> /\ ~fatal
            => ENABLED Worker_GetTask("ok"))
    /\ [](agent.pc = "poll" /\ tasks = <<>> /\ ~fatal => ENABLED Agent_Poll)
    /\ [][EmptyPull =>
            /\ worker'.pc = "sleep" /\ worker'.task = NoTask
            /\ tasks' = tasks /\ deqLog' = deqLog
            /\ expressions' = expressions /\ fatal' = fatal]_vars
    /\ [][EmptyPoll =>
            /\ agent'.pc = "sleep" /\ agent'.task = NoTask
            /\ tasks' = tasks /\ deqLog' = deqLog
            /\ expressions' = expressions /\ fatal' = fatal]_vars

\* the agent process has pulled on the queue that never held a task and
\* sleeps, while the registry holds the record of a handler about to send
C11_Witness ==
    /\ worker.pc = "sleep" /\ worker.task = NoTask
    /\ tasks = <<>> /\ deqLog = <<>> /\ enqLog = <<>>
    /\ \E r \in DOMAIN handlers : handlers[r].pc = "select"

\* the handler of request r has written its response
Answered(r) == r \in DOMAIN handlers /\ handlers[r].pc = "done" /\ handlers[r].resp # 0

\* C12: every Submit request ends with a response (201, a client error or a
\* server error) whatever the queue holds, also when the queue is full and
\* nothing ever receives from it: the handler does not wait for queue space
C12_SubmitTerminates ==
    \A r \in 1..(Prefill + BurstReq) :
        [](r \in DOMAIN handlers => <>Answered(r))

\* the agent process takes its sendResult step for a record that is processing
ReportProcessing ==
    /\ worker.pc = "send" /\ worker' # worker
    /\ worker.task.ID \in DOMAIN expressions
    /\ expressions[worker.task.ID].Status = "processing"

\* C13: a report {id, result} of the agent for an expression in processing is
\* accepted (answered 200), and the record under that id becomes completed
\* with the reported result, which is what a later read of the id returns
C13_ReportAccepted ==
    [][ReportProcessing =>
          /\ worker'.sent = 200
          /\ expressions'[worker.task.ID].Status = "completed"
          /\ expressions'[worker.task.ID].Result = worker.result]_vars

\* an agent that holds a result for an ID without a record takes its step of
\* writing the result to the registry
UnknownIDWrite ==
    /\ agent.pc \in {"write", "status"}
    /\ agent.task.ID \notin DOMAIN expressions
    /\ handlers' = handlers
    /\ agent' # agent \/ fatal' # fatal

\* the agent process reports a result for an ID without a record
UnknownIDReport ==
    /\ worker.pc = "send" /\ worker' # worker
    /\ worker.task.ID \notin DOMAIN expressions

C14_Witness ==
    /\ Count(deqLog, StrayID) = 1
    /\ agent.task.ID # StrayID /\ worker.task.ID # StrayID
    /\ StrayID \notin DOMAIN expressions
    /\ ~fatal
    /\ \E id \in DOMAIN expressions : expressions[id].Status = "completed"

\* the two numbers, the operator and the value of each example
Example ==
    [arg1 |-> Fin(3), arg2 |-> Fin(4), op |-> "+", value |-> Fin(7)] :> TRUE
    @@ [arg1 |-> Fin(10), arg2 |-> Fin(2), op |-> "-", value |-> Fin(8)] :> TRUE
    @@ [arg1 |-> Fin(5), arg2 |-> Fin(5), op |-> "*", value |-> Fin(25)] :> TRUE
    @@ [arg1 |-> Fin(8), arg2 |-> Fin(2), op |-> "/", value |-> Fin(4)] :> TRUE

\* the example the tokens number, number, operator stand for
ExampleOf(n1, n2, op) ==
    CHOOSE e \in DOMAIN Example :
        e.arg1 = NumLit[n1] /\ e.arg2 = NumLit[n2] /\ e.op = op

\* the task a poller holds or the queue holds under the ID id, if any
TasksOf(id) ==
    {tasks[i] : i \in {j \in 1..Len(tasks) : tasks[j].ID = id}}
        \cup {t \in {agent.task, worker.task} : t.ID = id}
        \cup {handlers[r].task : r \in {q \in DOMAIN handlers :
                                            handlers[q].task.ID = id}}

\* the request r is accepted, and its task and result are those of example e
AcceptedAs(r, e) ==
    /\ handlers[r].id # 0
    /\ handlers[r].resp \in {0, 201, 500}
    /\ \A t \in TasksOf(handlers[r].id) :
            /\ t.Arg1 = e.arg1 /\ t.Arg2 = e.arg2 /\ t.Operation = e.op
            /\ processResult(t) = [ok |-> TRUE, result |-> e.value]
    /\ agent.task.ID = handlers[r].id /\ agent.pc = "write" => agent.result = e.value
    /\ worker.task.ID = handlers[r].id /\ worker.pc = "send" => worker.result = e.value
    /\ handlers[r].id \in DOMAIN expressions =>
            expressions[handlers[r].id].Result \in {Zero, e.value}

\* the request r is rejected: 400, no ID, and nothing is made for it
Rejected(r) ==
    /\ handlers[r].pc = "done" /\ handlers[r].resp = 400
    /\ handlers[r].id = 0 /\ handlers[r].task = NoTask

Apply(t) ==
    CASE t.Operation = "+" -> FAdd(t.Arg1, t.Arg2)
      [] t.Operation = "-" -> FSub(t.Arg1, t.Arg2)
      [] t.Operation = "*" -> FMul(t.Arg1, t.Arg2)
      [] t.Operation = "/" -> FDiv(t.Arg1, t.Arg2)

\* the task is no division by zero and its value is neither NaN nor infinite
Computable(t) ==
    /\ t.Operation \in Operators
    /\ ~(t.Operation = "/" /\ IsZero(t.Arg2))
    /\ IsFinite(Apply(t))

\* C16: the computing step of an agent fails only for a division by zero and
\* for a NaN or infinite result: for every other task (operands equal to 0
\* included) it succeeds with arg1 op arg2, in the agent process and in the
\* in-process agent
C16_ComputeFailsOnlyOnDivZero ==
    /\ [][worker.pc = "calc" /\ worker' # worker /\ Computable(worker.task) =>
            worker'.pc = "send" /\ worker'.result = Apply(worker.task)]_vars
    /\ [][agent.pc = "process" /\ agent' # agent /\ Computable(agent.task) =>
            agent'.pc = "write" /\ agent'.result = Apply(agent.task)]_vars

\* the IDs whose report by an agent failed
FailedReports == agent.failed \cup worker.failed

\* C17: when the report of an agent fails, the agent does not report the ID
\* again and goes back to idle by way of its sleep, and the record of the ID
\* is not updated: in that step and in every later state it is not completed
\* and has no result
C17_FailedReportStrands ==
    /\ [](\A id \in FailedReports \cap DOMAIN expressions :
            /\ expressions[id].Status # "completed"
            /\ expressions[id].Result = Zero)
    /\ [][worker.pc = "send" /\ worker' # worker /\ worker'.sent # 200 =>
            /\ worker.task.ID \notin worker.failed
            /\ worker'.pc = "sleep" /\ worker'.task = NoTask
            /\ expressions' = expressions]_vars
    /\ [][agent.pc = "send" /\ agent' # agent /\ agent.task.ID \in agent'.failed =>
            /\ agent.task.ID \notin agent.failed
            /\ expressions' = expressions]_vars

\* C18: every cycle of an agent's loop ends with a sleep: an agent comes to
\* its pull of the next task only from its sleep, also after a failed
\* computation and after a processed task
C18_SleepBeforeEveryPoll ==
    /\ [][worker'.pc = "getTask" /\ worker.pc # "getTask" => worker.pc = "sleep"]_vars
    /\ [][agent'.pc = "poll" /\ agent.pc # "poll" => agent.pc = "sleep"]_vars

\* the Submit request r was answered 500 because the queue was full
EnqueueFailed(r) == handlers[r].pc = "done" /\ handlers[r].resp = 500

\* C19: an expression whose enqueue failed on a full queue is never retried:
\* no task with its ID is sent, queued or in a poller's hands afterwards, and
\* its record stays pending, without a result, through every later step
C19_FailedEnqueueNeverRetried ==
    /\ [](\A r \in DOMAIN handlers : EnqueueFailed(r) =>
            /\ Count(enqLog, handlers[r].id) = 0
            /\ Count(deqLog, handlers[r].id) = 0
            /\ TasksOf(handlers[r].id) = {}
            /\ expressions[handlers[r].id].Status = "pending"
            /\ expressions[handlers[r].id].Result = Zero)
    /\ [][\A r \in DOMAIN handlers : EnqueueFailed(r) =>
            /\ handlers'[r] = handlers[r]
            /\ expressions'[handlers[r].id] = expressions[handlers[r].id]]_vars

\* after a Submit failed on the full queue, the agent has completed a task and
\* a later Submit was accepted
C19_Witness ==
    \E r, q \in DOMAIN handlers :
        /\ EnqueueFailed(r)
        /\ q > r /\ handlers[q].resp = 201
        /\ expressions[handlers[r].id].Status = "pending"
        /\ \E id \in DOMAIN expressions : expressions[id].Status = "completed"

\* C20: for each expression ID at most one task is ever sent, and a task
\* carries the ID and the parsed operands of its own expression; a result, once
\* written, stays, and no step removes a record or changes its ID or its text
C20_OneTaskStableResult ==
    /\ [](\A id \in DOMAIN expressions : Count(enqLog, id) <= 1)
    /\ [](\A i \in 1..Len(enqLog) : enqLog[i] \in DOMAIN expressions)
    /\ [](\A id \in DOMAIN expressions : \A t \in TasksOf(id) :
            LET p == parseExpression(expressions[id].Expression)
            IN  t = [ID |-> expressions[id].ID, Arg1 |-> p.arg1, Arg2 |-> p.arg2,
                     Operation |-> p.operator])
    /\ [][\A id \in DOMAIN expressions :
            /\ id \in DOMAIN expressions'
            /\ expressions'[id].ID = id
            /\ expressions'[id].Expression = expressions[id].Expression
            /\ (expressions[id].Status = "completed" \/ expressions[id].Result # Zero)
                    => expressions'[id].Result = expressions[id].Result]_vars

\* one record is completed with its result and reset to processing by its
\* handler, while the task of another expression is queued
C20_Witness ==
    /\ \E id \in DOMAIN expressions :
            expressions[id].Result # Zero /\ expressions[id].Status = "processing"
    /\ tasks # <<>>

====
